---- MODULE Spec2Model ----
(***************************************************************************)
(* A model of the two artifacts of the repository:                         *)
(*   - mxnet/intro/Pre-trained models.ipynb: the notebook's functions      *)
(*     loadModel, loadCategories, prepareNDArray, predict, init and the    *)
(*     cells that call them;                                               *)
(*   - dsstne/demo-docker.txt: the provisioning runbook, command by        *)
(*     command.                                                            *)
(* Python lists are sequences (list index i is sequence index i + 1);      *)
(* numpy arrays are records [shape, at, dtype] with at a function over     *)
(* zero-based index tuples.                                                *)
(***************************************************************************)
EXTENDS Integers, Sequences, FiniteSets, TLC

VARIABLES
    disk,               \* the working directory: file name -> file
    gpuAvailable,       \* whether the machine has a GPU MXNet can use
    notebook,           \* the notebook's position and its global variables
    initCall,           \* the frame of a running init(modelname, gpu)
    loadModelCall,      \* the frame of a running loadModel(modelname, gpu)
    loadCategoriesCall, \* the frame of a running loadCategories()
    predictCall,        \* the frame of a running predict(filename, model, categories, n)
    prepareCall,        \* the frame of a running prepareNDArray(filename)
    log,                \* how many checkpoint loads and label loads have run
    runbook             \* the shell session of demo-docker.txt

vars == <<disk, gpuAvailable, notebook, initCall, loadModelCall,
          loadCategoriesCall, predictCall, prepareCall, log, runbook>>

\* What the steps of one function leave alone.
ExceptPrepare == <<disk, gpuAvailable, notebook, initCall, loadModelCall,
                   loadCategoriesCall, predictCall, log, runbook>>
ExceptPredict == <<disk, gpuAvailable, notebook, initCall, loadModelCall,
                   loadCategoriesCall, prepareCall, log, runbook>>
ExceptPredictPrepare == <<disk, gpuAvailable, notebook, initCall, loadModelCall,
                          loadCategoriesCall, log, runbook>>
ExceptLoadCategories == <<disk, gpuAvailable, notebook, initCall, loadModelCall,
                          predictCall, prepareCall, runbook>>
ExceptLoadModel == <<disk, gpuAvailable, notebook, initCall, loadCategoriesCall,
                     predictCall, prepareCall, runbook>>
ExceptInit == <<disk, gpuAvailable, notebook, predictCall, prepareCall, log, runbook>>

-----------------------------------------------------------------------------
(* Bounds of the model. *)

\* Largest number of classes (outputs) of a model.
MaxClasses == 3
\* Output probabilities are the values 0..MaxProb (only their order matters).
MaxProb == 2
\* Largest n handed to predict.
MaxN == 4
\* Longest list of categories.
MaxCats == 4
\* The number of classes of the three downloaded models: stands for the
\* 1,000 ImageNet categories.
ZooClasses == 2
\* Longest label file, in characters.
MaxFileLen == 4
\* Largest height and width of an image on disk.
MaxDim == 2
\* Images on disk are generated from a seed in 0..MaxSeed.
MaxSeed == 3
\* The side of the resized image: stands for the 224 of the source
\* (cv2.resize(img, (224, 224,)) and the bound shape (1,3,224,224)),
\* scaled down so that every element of the tensor can be enumerated.
Side == 2

-----------------------------------------------------------------------------
(* numpy arrays *)

Max(a, b) == IF a >= b THEN a ELSE b
Min(a, b) == IF a <= b THEN a ELSE b

RECURSIVE MaxExtent(_)
MaxExtent(shape) ==
    IF shape = <<>> THEN 0 ELSE Max(Head(shape), MaxExtent(Tail(shape)))

\* The index tuples of an array of the given shape (zero-based).
IndexSet(shape) ==
    { idx \in [1..Len(shape) -> 0..MaxExtent(shape)] :
        \A k \in 1..Len(shape) : idx[k] < shape[k] }

\* What cv2.imread returns for a file it cannot read, and the value of an
\* unassigned local.
NoneArray == [shape |-> <<0>>, at |-> <<>>, dtype |-> "None"]

IsNone(a) == a.dtype = "None"

\* A file of the working directory. kind is "image", "text", "symbol",
\* "params" or "empty" (what wget -O leaves when the download fails); only
\* the field of its kind carries content.
File(kind, image, text, symbol, params) ==
    [kind |-> kind, image |-> image, text |-> text, symbol |-> symbol,
     params |-> params]

\* cv2.imread: the decoded file, an array (height, width, 3) in BGR order, or
\* None when the file is missing or unreadable.
Imread(files, filename) ==
    IF filename \in DOMAIN files /\ files[filename].kind = "image"
    THEN files[filename].image
    ELSE NoneArray

\* cv2.cvtColor(img, cv2.COLOR_BGR2RGB): channel c of the result is channel
\* 2 - c of the input.
CvtColorBGR2RGB(img) ==
    [img EXCEPT !.at = [idx \in IndexSet(img.shape) |->
                          img.at[<<idx[1], idx[2], 2 - idx[3]>>]]]

\* One axis of a bilinear resize (cv2.INTER_LINEAR, the default): the two
\* source coordinates destination coordinate d reads and the weight of the
\* second, in units of 1/(2 * dst).
LinearTap(d, src, dst) ==
    LET num == (2 * d + 1) * src - dst
        den == 2 * dst
        lo  == IF num < 0 THEN 0 ELSE num \div den
        fr  == IF num < 0 THEN 0 ELSE num % den
    IN  IF lo >= src - 1
        THEN [lo |-> src - 1, hi |-> src - 1, w |-> 0, den |-> den]
        ELSE [lo |-> lo, hi |-> lo + 1, w |-> fr, den |-> den]

\* cv2.resize(img, (width, height)): an array (height, width, channels),
\* each element the rounded bilinear mix of the four source pixels around it.
Resize(img, width, height) ==
    LET h == img.shape[1]
        w == img.shape[2]
        px(y, x, c) ==
            LET ty == LinearTap(y, h, height)
                tx == LinearTap(x, w, width)
                dd == ty.den * tx.den
            IN  ( (ty.den - ty.w) * (tx.den - tx.w) * img.at[<<ty.lo, tx.lo, c>>]
                + (ty.den - ty.w) * tx.w            * img.at[<<ty.lo, tx.hi, c>>]
                + ty.w            * (tx.den - tx.w) * img.at[<<ty.hi, tx.lo, c>>]
                + ty.w            * tx.w            * img.at[<<ty.hi, tx.hi, c>>]
                + dd \div 2 ) \div dd
        shape == <<height, width, img.shape[3]>>
    IN  [img EXCEPT !.shape = shape,
                    !.at = [idx \in IndexSet(shape) |-> px(idx[1], idx[2], idx[3])]]

\* Tuple t with its entries at (zero-based) positions i and j exchanged.
SwapEntries(t, i, j) ==
    [k \in 1..Len(t) |-> IF k = i + 1 THEN t[j + 1]
                         ELSE IF k = j + 1 THEN t[i + 1] ELSE t[k]]

\* The position of index tuple idx in the row-major order of shape.
RECURSIVE Offset(_, _)
Offset(shape, idx) ==
    IF shape = <<>> THEN 0
    ELSE Offset(SubSeq(shape, 1, Len(shape) - 1), SubSeq(idx, 1, Len(idx) - 1))
           * shape[Len(shape)] + idx[Len(idx)]

\* Mutant of SwapAxes: a reshape to the shape with axes i and j exchanged,
\* which keeps the elements in their row-major order.
ReshapeAxes(a, i, j) ==
    LET shape == SwapEntries(a.shape, i, j)
    IN  [a EXCEPT !.shape = shape,
                  !.at = [idx \in IndexSet(shape) |->
                            a.at[CHOOSE old \in IndexSet(a.shape) :
                                    Offset(a.shape, old) = Offset(shape, idx)]]]

\* np.swapaxes(a, i, j): a view of a with axes i and j exchanged.
SwapAxes(a, i, j) ==
    LET shape == SwapEntries(a.shape, i, j)
    IN  [a EXCEPT !.shape = shape,
                  !.at = [idx \in IndexSet(shape) |-> a.at[SwapEntries(idx, i, j)]]]

\* a[np.newaxis, :]: a with a new leading axis of length 1.
NewAxis(a) ==
    LET shape == <<1>> \o a.shape
    IN  [a EXCEPT !.shape = shape,
                  !.at = [idx \in IndexSet(shape) |-> a.at[Tail(idx)]]]

\* mx.nd.array(img): an NDArray with the same shape and values, as float32.
NDArrayOf(a) == [a EXCEPT !.dtype = "float32"]

-----------------------------------------------------------------------------
(* prepareNDArray(filename), statement by statement *)

\* An image file's decoded content: h x w pixels, 3 channels in BGR order,
\* every element of the image a different value.
DecodedImage(h, w, seed) ==
    [shape |-> <<h, w, 3>>,
     at    |-> [idx \in IndexSet(<<h, w, 3>>) |->
                  (seed + 7 * (3 * (idx[1] * w + idx[2]) + idx[3])) % 256],
     dtype |-> "uint8"]

DecodedImages ==
    { DecodedImage(h, w, s) : h \in 1..MaxDim, w \in 1..MaxDim, s \in 0..MaxSeed }

\* The frame at the call.
PrepareEntry(filename) ==
    [pc |-> "imread", filename |-> filename, img |-> NoneArray, array |-> NoneArray]

PrepareIdle == [pc |-> "idle", filename |-> "", img |-> NoneArray, array |-> NoneArray]

\* img = cv2.imread(filename)
PrepImread ==
    /\ prepareCall.pc = "imread"
    /\ prepareCall' = [prepareCall EXCEPT
                         !.img = Imread(disk, prepareCall.filename),
                         !.pc = "cvtColor"]
    /\ UNCHANGED ExceptPrepare

\* img = cv2.cvtColor(img, cv2.COLOR_BGR2RGB); raises on None.
PrepCvtColor ==
    /\ prepareCall.pc = "cvtColor"
    /\ prepareCall' =
         IF IsNone(prepareCall.img)
         THEN [prepareCall EXCEPT !.pc = "raised"]
         ELSE [prepareCall EXCEPT !.img = CvtColorBGR2RGB(prepareCall.img),
                                  !.pc = "resize"]
    /\ UNCHANGED ExceptPrepare

\* img = cv2.resize(img, (224, 224,))
PrepResize ==
    /\ prepareCall.pc = "resize"
    /\ prepareCall' = [prepareCall EXCEPT
                         !.img = Resize(prepareCall.img, Side, Side),
                         !.pc = "swapaxes02"]
    /\ UNCHANGED ExceptPrepare

\* img = np.swapaxes(img, 0, 2)
PrepSwapAxes02 ==
    /\ prepareCall.pc = "swapaxes02"
    /\ prepareCall' = [prepareCall EXCEPT
                         !.img = SwapAxes(prepareCall.img, 0, 2),
                         !.pc = "swapaxes12"]
    /\ UNCHANGED ExceptPrepare

\* img = np.swapaxes(img, 1, 2)
PrepSwapAxes12 ==
    /\ prepareCall.pc = "swapaxes12"
    /\ prepareCall' = [prepareCall EXCEPT
                         !.img = SwapAxes(prepareCall.img, 1, 2),
                         !.pc = "newaxis"]
    /\ UNCHANGED ExceptPrepare

\* img = img[np.newaxis, :]
PrepNewAxis ==
    /\ prepareCall.pc = "newaxis"
    /\ prepareCall' = [prepareCall EXCEPT
                         !.img = NewAxis(prepareCall.img),
                         !.pc = "ndarray"]
    /\ UNCHANGED ExceptPrepare

\* array = mx.nd.array(img); print array.shape; return array
PrepReturn ==
    /\ prepareCall.pc = "ndarray"
    /\ prepareCall' = [prepareCall EXCEPT
                         !.array = NDArrayOf(prepareCall.img),
                         !.pc = "returned"]
    /\ UNCHANGED ExceptPrepare

PrepareStep ==
    \/ PrepImread
    \/ PrepCvtColor
    \/ PrepResize
    \/ PrepSwapAxes02
    \/ PrepSwapAxes12
    \/ PrepNewAxis
    \/ PrepReturn

-----------------------------------------------------------------------------
(* loadCategories(), statement by statement *)

\* The characters str.rstrip() removes.
Whitespace == {" ", "\t", "\n", "\r", "\f"}

\* Mutant of RStrip: the line kept as read, newline included.
NoStrip(l) == l

\* l.rstrip(): l without its trailing whitespace.
RECURSIVE RStrip(_)
RStrip(l) ==
    IF l # <<>> /\ l[Len(l)] \in Whitespace
    THEN RStrip(SubSeq(l, 1, Len(l) - 1))
    ELSE l

\* The end (one-based, inclusive) of the line that starts at pos: its
\* newline, or the end of the text when no newline follows.
RECURSIVE LineEnd(_, _)
LineEnd(text, pos) ==
    IF pos >= Len(text) \/ text[pos] = "\n" THEN pos ELSE LineEnd(text, pos + 1)

LoadCategoriesEntry ==
    [pc |-> "open", text |-> <<>>, pos |-> 1, synsets |-> <<>>, returned |-> <<>>]

LoadCategoriesIdle == [LoadCategoriesEntry EXCEPT !.pc = "idle"]

\* synsetfile = open('synset.txt', 'r'); synsets = []
\* open raises IOError when the file does not exist.
LoadCatOpen ==
    /\ loadCategoriesCall.pc = "open"
    /\ IF "synset.txt" \in DOMAIN disk
       THEN /\ loadCategoriesCall' =
                 [loadCategoriesCall EXCEPT !.text = disk["synset.txt"].text,
                                            !.pos = 1,
                                            !.synsets = <<>>,
                                            !.pc = "for"]
            /\ log' = [log EXCEPT !.categoryLoads = @ + 1]
       ELSE /\ loadCategoriesCall' = [loadCategoriesCall EXCEPT !.pc = "raised"]
            /\ UNCHANGED log
    /\ UNCHANGED ExceptLoadCategories

\* for l in synsetfile: synsets.append(l.rstrip())
\* One iteration (the file object hands out the next line, newline included),
\* or the end of the loop at the end of the file.
LoadCatLine ==
    /\ loadCategoriesCall.pc = "for"
    /\ LET text == loadCategoriesCall.text
           pos  == loadCategoriesCall.pos
       IN  IF pos > Len(text)
           THEN loadCategoriesCall' = [loadCategoriesCall EXCEPT !.pc = "return"]
           ELSE LET end == LineEnd(text, pos)
                    l   == SubSeq(text, pos, end)
                IN  loadCategoriesCall' =
                      [loadCategoriesCall EXCEPT !.synsets = Append(@, RStrip(l)),
                                                 !.pos = end + 1]
    /\ UNCHANGED log
    /\ UNCHANGED ExceptLoadCategories

\* return synsets
LoadCatReturn ==
    /\ loadCategoriesCall.pc = "return"
    /\ loadCategoriesCall' =
         [loadCategoriesCall EXCEPT !.returned = <<loadCategoriesCall.synsets>>,
                                    !.pc = "returned"]
    /\ UNCHANGED log
    /\ UNCHANGED ExceptLoadCategories

LoadCategoriesStep ==
    \/ LoadCatOpen
    \/ LoadCatLine
    \/ LoadCatReturn

-----------------------------------------------------------------------------
(* loadModel(modelname, gpu), statement by statement *)

NoParams == [k \in {} |-> 0]

NoSymbol == [name |-> "", classes |-> 0]

\* mx.mod.Module(symbol=sym, context=ctx): a module, not yet bound.
Module(symbol, context) ==
    [symbol       |-> symbol,
     context      |-> context,
     binded       |-> FALSE,
     for_training |-> FALSE,
     data_shapes  |-> <<"", <<>>>>,
     arg_params   |-> NoParams,
     aux_params   |-> NoParams]

\* The value of a variable no statement has assigned yet.
NoModule == Module(NoSymbol, "")

\* mod.bind(for_training=..., data_shapes=[(name, shape)])
Bind(mod, for_training, data_shapes) ==
    [mod EXCEPT !.binded = TRUE,
                !.for_training = for_training,
                !.data_shapes = data_shapes]

\* mod.set_params(arg_params, aux_params)
SetParams(mod, arg_params, aux_params) ==
    [mod EXCEPT !.arg_params = arg_params, !.aux_params = aux_params]

\* Mutant of DictSet: the dict rebound to one holding only the new entry.
DictReplace(d, key, value) == [k \in {key} |-> value]

\* d[key] = value on a dict: the key is added, or its value replaced.
DictSet(d, key, value) ==
    [k \in DOMAIN d \cup {key} |-> IF k = key THEN value ELSE d[k]]

\* The files mx.model.load_checkpoint(prefix, epoch) reads. The epoch is
\* written with four digits; the notebook only loads epoch 0.
\* Mutant of ParamsFile: the epoch of the URL (0126) in the file name.
ParamsFileOfUrl(prefix, epoch) == prefix \o "-0126.params"

SymbolFile(prefix) == prefix \o "-symbol.json"
ParamsFile(prefix, epoch) == prefix \o "-000" \o ToString(epoch) \o ".params"

\* Whether load_checkpoint(prefix, epoch) finds what it needs: each of the
\* two files exists and holds what a checkpoint file holds.
CheckpointReadable(files, prefix, epoch) ==
    /\ SymbolFile(prefix) \in DOMAIN files
    /\ files[SymbolFile(prefix)].kind = "symbol"
    /\ ParamsFile(prefix, epoch) \in DOMAIN files
    /\ files[ParamsFile(prefix, epoch)].kind = "params"

\* Mutant of ContextFor: the flag ignored.
ContextCpu(gpu) == "cpu(0)"

\* The context loadModel creates the module on.
ContextFor(gpu) == IF gpu THEN "gpu(0)" ELSE "cpu(0)"

\* The input the module is bound to.
DataShapes == <<"data", <<1, 3, Side, Side>>>>

\* mx.nd.array([0]), the value given to the two label entries.
LabelValue == 0

LoadModelEntry(modelname, gpu) ==
    [pc |-> "load_checkpoint", modelname |-> modelname, gpu |-> gpu,
     sym |-> NoSymbol, arg_params |-> NoParams, aux_params |-> NoParams,
     loaded |-> NoParams, mod |-> NoModule, returned |-> <<>>]

LoadModelIdle == [LoadModelEntry("", FALSE) EXCEPT !.pc = "idle"]

\* sym, arg_params, aux_params = mx.model.load_checkpoint(modelname, 0)
\* (loaded keeps what load_checkpoint returned as arg_params, for reference.)
LoadModelCheckpoint ==
    /\ loadModelCall.pc = "load_checkpoint"
    /\ IF CheckpointReadable(disk, loadModelCall.modelname, 0)
       THEN LET params == disk[ParamsFile(loadModelCall.modelname, 0)].params
            IN  /\ loadModelCall' =
                     [loadModelCall EXCEPT
                        !.sym = disk[SymbolFile(loadModelCall.modelname)].symbol,
                        !.arg_params = params.arg,
                        !.aux_params = params.aux,
                        !.loaded = params.arg,
                        !.pc = "set_labels"]
                /\ log' = [log EXCEPT !.checkpointLoads = @ + 1]
       ELSE /\ loadModelCall' = [loadModelCall EXCEPT !.pc = "raised"]
            /\ UNCHANGED log
    /\ UNCHANGED ExceptLoadModel

\* arg_params['prob_label'] = mx.nd.array([0])
\* arg_params['softmax_label'] = mx.nd.array([0])
LoadModelSetLabels ==
    /\ loadModelCall.pc = "set_labels"
    /\ loadModelCall' =
         [loadModelCall EXCEPT
            !.arg_params = DictSet(DictSet(@, "prob_label", LabelValue),
                                   "softmax_label", LabelValue),
            !.pc = "module"]
    /\ UNCHANGED log
    /\ UNCHANGED ExceptLoadModel

\* if gpu: mod = mx.mod.Module(symbol=sym, context=mx.gpu(0))
\* else:   mod = mx.mod.Module(symbol=sym)
LoadModelModule ==
    /\ loadModelCall.pc = "module"
    /\ loadModelCall' =
         [loadModelCall EXCEPT
            !.mod = Module(loadModelCall.sym, ContextFor(loadModelCall.gpu)),
            !.pc = "bind"]
    /\ UNCHANGED log
    /\ UNCHANGED ExceptLoadModel

\* mod.bind(for_training=False, data_shapes=[('data', (1,3,224,224))])
\* Binding allocates on the module's context: it raises on a GPU context when
\* the machine has no usable GPU.
LoadModelBind ==
    /\ loadModelCall.pc = "bind"
    /\ loadModelCall' =
         IF loadModelCall.mod.context = "gpu(0)" /\ ~gpuAvailable
         THEN [loadModelCall EXCEPT !.pc = "raised"]
         ELSE [loadModelCall EXCEPT !.mod = Bind(@, FALSE, DataShapes),
                                    !.pc = "set_params"]
    /\ UNCHANGED log
    /\ UNCHANGED ExceptLoadModel

\* mod.set_params(arg_params, aux_params)
LoadModelSetParams ==
    /\ loadModelCall.pc = "set_params"
    /\ loadModelCall' =
         [loadModelCall EXCEPT
            !.mod = SetParams(@, loadModelCall.arg_params, loadModelCall.aux_params),
            !.pc = "return"]
    /\ UNCHANGED log
    /\ UNCHANGED ExceptLoadModel

\* return mod
LoadModelReturn ==
    /\ loadModelCall.pc = "return"
    /\ loadModelCall' = [loadModelCall EXCEPT !.returned = <<loadModelCall.mod>>,
                                              !.pc = "returned"]
    /\ UNCHANGED log
    /\ UNCHANGED ExceptLoadModel

LoadModelStep ==
    \/ LoadModelCheckpoint
    \/ LoadModelSetLabels
    \/ LoadModelModule
    \/ LoadModelBind
    \/ LoadModelSetParams
    \/ LoadModelReturn

-----------------------------------------------------------------------------
(* init(modelname, gpu), statement by statement *)

InitEntry(modelname, gpu) ==
    [pc |-> "loadModel", modelname |-> modelname, gpu |-> gpu,
     model |-> NoModule, categories |-> <<>>, returned |-> FALSE]

InitIdle == [InitEntry("", FALSE) EXCEPT !.pc = "idle"]

\* model = loadModel(modelname,gpu): the call.
InitCallLoadModel ==
    /\ initCall.pc = "loadModel"
    /\ loadModelCall.pc = "idle"
    /\ loadModelCall' = LoadModelEntry(initCall.modelname, initCall.gpu)
    /\ initCall' = [initCall EXCEPT !.pc = "loadModel_wait"]
    /\ UNCHANGED <<loadCategoriesCall>>
    /\ UNCHANGED ExceptInit

\* model = loadModel(modelname,gpu): the return, or the exception passing
\* through.
InitLoadedModel ==
    /\ initCall.pc = "loadModel_wait"
    /\ loadModelCall.pc \in {"returned", "raised"}
    /\ initCall' =
         IF loadModelCall.pc = "returned"
         THEN [initCall EXCEPT !.model = loadModelCall.returned[1],
                               !.pc = "loadCategories"]
         ELSE [initCall EXCEPT !.pc = "raised"]
    /\ loadModelCall' = LoadModelIdle
    /\ UNCHANGED <<loadCategoriesCall>>
    /\ UNCHANGED ExceptInit

\* categories = loadCategories(): the call.
InitCallLoadCategories ==
    /\ initCall.pc = "loadCategories"
    /\ loadCategoriesCall.pc = "idle"
    /\ loadCategoriesCall' = LoadCategoriesEntry
    /\ initCall' = [initCall EXCEPT !.pc = "loadCategories_wait"]
    /\ UNCHANGED <<loadModelCall>>
    /\ UNCHANGED ExceptInit

\* categories = loadCategories(): the return, or the exception passing
\* through; then return model, categories.
InitLoadedCategories ==
    /\ initCall.pc = "loadCategories_wait"
    /\ loadCategoriesCall.pc \in {"returned", "raised"}
    /\ initCall' =
         IF loadCategoriesCall.pc = "returned"
         THEN [initCall EXCEPT !.categories = loadCategoriesCall.returned[1],
                               !.returned = TRUE,
                               !.pc = "returned"]
         ELSE [initCall EXCEPT !.pc = "raised"]
    /\ loadCategoriesCall' = LoadCategoriesIdle
    /\ UNCHANGED <<loadModelCall>>
    /\ UNCHANGED ExceptInit

InitStep ==
    \/ InitCallLoadModel
    \/ InitLoadedModel
    \/ InitCallLoadCategories
    \/ InitLoadedCategories

-----------------------------------------------------------------------------
(* numpy on the output of the forward pass *)

\* The positions (one-based) of the axes of shape whose length is not 1.
KeptAxes(shape) ==
    SelectSeq([k \in 1..Len(shape) |-> k], LAMBDA k : shape[k] # 1)

\* np.squeeze(a): a without its axes of length 1. An array whose axes all
\* have length 1 becomes a 0-d array (shape ()).
Squeeze(a) ==
    LET kept  == KeptAxes(a.shape)
        shape == [j \in 1..Len(kept) |-> a.shape[kept[j]]]
        full(idx) == [k \in 1..Len(a.shape) |->
                        IF a.shape[k] = 1 THEN 0
                        ELSE idx[CHOOSE j \in 1..Len(kept) : kept[j] = k]]
    IN  [a EXCEPT !.shape = shape,
                  !.at = [idx \in IndexSet(shape) |-> a.at[full(idx)]]]

\* The number of elements np.argsort sorts: a 0-d array counts as one element.
SortLen(a) == IF a.shape = <<>> THEN 1 ELSE a.shape[1]

\* Element j of a 1-d array, or the element of a 0-d array.
FlatAt(a, j) == IF a.shape = <<>> THEN a.at[<<>>] ELSE a.at[<<j>>]

\* np.argsort(a): the indices of a in ascending order of value. The default
\* sort is not stable: equal values may come in any order.
Argsort(a) ==
    LET N == SortLen(a)
    IN  { p \in [1..N -> 0..(N - 1)] :
            /\ \A j, k \in 1..N : j # k => p[j] # p[k]
            /\ \A j \in 1..(N - 1) : FlatAt(a, p[j]) <= FlatAt(a, p[j + 1]) }

\* Mutant of Reversed: the reversal forgotten (np.argsort(prob) alone).
NotReversed(s) == s

\* s[::-1]
Reversed(s) == [j \in 1..Len(s) |-> s[Len(s) + 1 - j]]

\* s[0:n], with Python's rule for a negative or too large n.
SliceTo(s, n) ==
    LET stop == IF n < 0 THEN Max(0, Len(s) + n) ELSE Min(n, Len(s))
    IN  SubSeq(s, 1, stop)

\* Whether a[i] is an element: a 1-d array and i within it. (Indexing a 0-d
\* array with an integer raises IndexError.)
CanIndex(a, i) == Len(a.shape) = 1 /\ i >= 0 /\ i < a.shape[1]

-----------------------------------------------------------------------------
(* predict(filename, model, categories, n), statement by statement *)

\* What model.get_outputs()[0].asnumpy() can be for a model of K classes: one
\* row (the batch size is 1) of K probabilities.
Outputs(K) ==
    { [shape |-> <<1, K>>, at |-> at, dtype |-> "float32"] :
        at \in [IndexSet(<<1, K>>) -> 0..MaxProb] }

PredictEntry(filename, model, categories, n) ==
    [pc |-> "prepare", filename |-> filename, model |-> model,
     categories |-> categories, n |-> n,
     array |-> NoneArray, prob |-> NoneArray, sortedprobindex |-> <<>>,
     k |-> 0, topn |-> <<>>, returned |-> <<>>]

PredictIdle == [PredictEntry("", NoModule, <<>>, 0) EXCEPT !.pc = "idle"]

\* array = prepareNDArray(filename): the call.
PredCallPrepare ==
    /\ predictCall.pc = "prepare"
    /\ prepareCall.pc = "idle"
    /\ prepareCall' = PrepareEntry(predictCall.filename)
    /\ predictCall' = [predictCall EXCEPT !.pc = "prepare_wait"]
    /\ UNCHANGED ExceptPredictPrepare

\* array = prepareNDArray(filename): the return, or the exception passing
\* through.
PredPrepared ==
    /\ predictCall.pc = "prepare_wait"
    /\ prepareCall.pc \in {"returned", "raised"}
    /\ predictCall' =
         IF prepareCall.pc = "returned"
         THEN [predictCall EXCEPT !.array = prepareCall.array, !.pc = "forward"]
         ELSE [predictCall EXCEPT !.pc = "raised"]
    /\ prepareCall' = PrepareIdle
    /\ UNCHANGED ExceptPredictPrepare

\* model.forward(Batch([array])); prob = model.get_outputs()[0].asnumpy()
\* The framework raises when the input does not have the bound shape, and
\* may raise for reasons of its own.
PredForward ==
    /\ predictCall.pc = "forward"
    /\ \/ /\ /\ predictCall.model.binded
             /\ predictCall.array.shape = predictCall.model.data_shapes[2]
          /\ \E out \in Outputs(predictCall.model.symbol.classes) :
                predictCall' = [predictCall EXCEPT !.prob = out, !.pc = "squeeze"]
       \/ predictCall' = [predictCall EXCEPT !.pc = "raised"]
    /\ UNCHANGED ExceptPredict

\* prob = np.squeeze(prob)
PredSqueeze ==
    /\ predictCall.pc = "squeeze"
    /\ predictCall' = [predictCall EXCEPT !.prob = Squeeze(predictCall.prob),
                                          !.pc = "argsort"]
    /\ UNCHANGED ExceptPredict

\* sortedprobindex = np.argsort(prob)[::-1]; topn = []
PredArgsort ==
    /\ predictCall.pc = "argsort"
    /\ \E p \in Argsort(predictCall.prob) :
          predictCall' = [predictCall EXCEPT !.sortedprobindex = Reversed(p),
                                             !.topn = <<>>,
                                             !.k = 0,
                                             !.pc = "loop"]
    /\ UNCHANGED ExceptPredict

\* Mutant of TopnEntry: the label of index 0 paired with every probability.
TopnEntryFirstLabel(prob, categories, i) == <<prob.at[<<i>>], categories[1]>>

\* The pair one iteration appends for index i.
TopnEntry(prob, categories, i) == <<prob.at[<<i>>], categories[i + 1]>>

\* for i in sortedprobindex[0:n]: topn.append((prob[i], categories[i]))
\* One iteration, or the end of the loop. prob[i] and categories[i] raise
\* IndexError when i is no index of theirs.
PredLoop ==
    /\ predictCall.pc = "loop"
    /\ LET todo == SliceTo(predictCall.sortedprobindex, predictCall.n)
       IN  IF predictCall.k >= Len(todo)
           THEN predictCall' = [predictCall EXCEPT !.pc = "return"]
           ELSE LET i == todo[predictCall.k + 1]
                IN  IF /\ CanIndex(predictCall.prob, i)
                       /\ i < Len(predictCall.categories)
                    THEN predictCall' =
                           [predictCall EXCEPT
                              !.topn = Append(@, TopnEntry(predictCall.prob,
                                                           predictCall.categories, i)),
                              !.k = @ + 1]
                    ELSE predictCall' = [predictCall EXCEPT !.pc = "raised"]
    /\ UNCHANGED ExceptPredict

\* return topn
PredReturn ==
    /\ predictCall.pc = "return"
    /\ predictCall' = [predictCall EXCEPT !.returned = <<predictCall.topn>>,
                                          !.pc = "returned"]
    /\ UNCHANGED ExceptPredict

PredictStep ==
    \/ PredCallPrepare
    \/ PredPrepared
    \/ PredForward
    \/ PredSqueeze
    \/ PredArgsort
    \/ PredLoop
    \/ PredReturn

-----------------------------------------------------------------------------
(* The notebook's cells, statement by statement *)

Stmt(op, name, target, gpu, kind) ==
    [op |-> op, name |-> name, target |-> target, gpu |-> gpu, kind |-> kind]

\* The statements of the code cells that change state, in the order of the
\* notebook. A wget statement names the file asked of the server (name) and
\* the file written (target, the -O argument).
Program ==
    << Stmt("wget", "vgg16-symbol.json", "vgg16-symbol.json", FALSE, "symbol"),
       Stmt("wget", "vgg16-0000.params", "vgg16-0000.params", FALSE, "params"),
       Stmt("wget", "Inception-BN-symbol.json", "Inception-BN-symbol.json", FALSE, "symbol"),
       Stmt("wget", "Inception-BN-0126.params", "Inception-BN-0000.params", FALSE, "params"),
       Stmt("wget", "resnet-152-symbol.json", "resnet-152-symbol.json", FALSE, "symbol"),
       Stmt("wget", "resnet-152-0000.params", "resnet-152-0000.params", FALSE, "params"),
       Stmt("wget", "synset.txt", "synset.txt", FALSE, "text"),
       Stmt("loadCategories", "", "synsets", FALSE, ""),
       Stmt("init", "vgg16", "vgg16", FALSE, ""),
       Stmt("init", "resnet-152", "resnet152", FALSE, ""),
       Stmt("init", "Inception-BN", "inceptionv3", FALSE, ""),
       Stmt("get_params", "vgg16", "params", FALSE, ""),
       Stmt("print_param", "fc8_weight", "", FALSE, ""),
       Stmt("image", "violin.jpg", "image", FALSE, ""),
       Stmt("topn", "", "topn", FALSE, ""),
       Stmt("predict", "vgg16", "", FALSE, ""),
       Stmt("predict", "resnet152", "", FALSE, ""),
       Stmt("predict", "inceptionv3", "", FALSE, ""),
       Stmt("init", "vgg16", "vgg16", TRUE, ""),
       Stmt("init", "resnet-152", "resnet152", TRUE, ""),
       Stmt("init", "Inception-BN", "inceptionv3", TRUE, ""),
       Stmt("predict", "vgg16", "", FALSE, ""),
       Stmt("predict", "resnet152", "", FALSE, ""),
       Stmt("predict", "inceptionv3", "", FALSE, "") >>

\* topn = 5
TopN == 5

\* The statement the notebook is at; none once it has ended or failed.
Running == ~notebook.error /\ notebook.pc <= Len(Program)
Current == Program[notebook.pc]
At(op) == Running /\ Current.op = op

\* Line i (zero-based) of a label file: a name, a trailing blank, a newline.
LabelLine(i) == <<"n", ToString(i), " ", "\n">>

RECURSIVE LabelText(_)
LabelText(n) == IF n = 0 THEN <<>> ELSE LabelText(n - 1) \o LabelLine(n - 1)

\* The parameter sets a .params file may hold: with or without an entry
\* under one of the two label names.
ParamSets ==
    { [arg |-> [k \in {"fc8_weight", "fc8_bias"} |-> 7],
       aux |-> [k \in {"bn_moving_mean"} |-> 3]],
      [arg |-> [k \in {"fc8_weight", "prob_label"} |-> 7],
       aux |-> NoParams] }

\* What a download may write: the file asked for, or an empty file when the
\* download fails (wget -O creates the file first). The label file served
\* has one line per class, or one line too few.
Served(stmt) ==
    CASE stmt.kind = "symbol" ->
           { File("symbol", NoneArray, <<>>,
                  [name |-> stmt.name, classes |-> ZooClasses], [arg |-> NoParams, aux |-> NoParams]) }
      [] stmt.kind = "params" ->
           { File("params", NoneArray, <<>>, NoSymbol, ps) : ps \in ParamSets }
      [] stmt.kind = "text" ->
           { File("text", NoneArray, LabelText(n), NoSymbol, [arg |-> NoParams, aux |-> NoParams]) :
               n \in {ZooClasses - 1, ZooClasses} }

EmptyFile == File("empty", NoneArray, <<>>, NoSymbol, [arg |-> NoParams, aux |-> NoParams])

ImageFile(img) == File("image", img, <<>>, NoSymbol, [arg |-> NoParams, aux |-> NoParams])

\* files with name written (created or replaced).
WriteFile(files, name, file) ==
    [f \in DOMAIN files \cup {name} |-> IF f = name THEN file ELSE files[f]]

Advance(nb) == [nb EXCEPT !.pc = @ + 1]
\* Mutant of Fail: the exception swallowed, the run going on.
FailSwallowed(nb) == Advance(nb)

Fail(nb) == [nb EXCEPT !.error = TRUE]

\* !wget <url> -O <target>: a shell command; its failure raises nothing.
CellWget ==
    /\ At("wget")
    /\ \E file \in Served(Current) \cup {EmptyFile} :
          disk' = WriteFile(disk, Current.target, file)
    /\ notebook' = Advance(notebook)
    /\ UNCHANGED <<gpuAvailable, initCall, loadModelCall, loadCategoriesCall,
                   predictCall, prepareCall, log, runbook>>

\* synsets = loadCategories(): the call.
CellLoadCategoriesCall ==
    /\ At("loadCategories")
    /\ loadCategoriesCall.pc = "idle"
    /\ loadCategoriesCall' = LoadCategoriesEntry
    /\ UNCHANGED <<disk, gpuAvailable, notebook, initCall, loadModelCall,
                   predictCall, prepareCall, log, runbook>>

\* synsets = loadCategories(): the assignment (print synsets[:10] follows),
\* or the exception ending the run.
CellLoadCategoriesReturn ==
    /\ At("loadCategories")
    /\ loadCategoriesCall.pc \in {"returned", "raised"}
    /\ notebook' =
         IF loadCategoriesCall.pc = "returned"
         THEN Advance([notebook EXCEPT !.synsets = loadCategoriesCall.returned])
         ELSE Fail(notebook)
    /\ loadCategoriesCall' = LoadCategoriesIdle
    /\ UNCHANGED <<disk, gpuAvailable, initCall, loadModelCall,
                   predictCall, prepareCall, log, runbook>>

\* <target>,categories = init(<name>, gpu): the call.
CellInitCall ==
    /\ At("init")
    /\ initCall.pc = "idle"
    /\ initCall' = InitEntry(Current.name, Current.gpu)
    /\ UNCHANGED <<disk, gpuAvailable, notebook, loadModelCall, loadCategoriesCall,
                   predictCall, prepareCall, log, runbook>>

\* Mutant of AssignInit: the first label taken for a header and dropped.
AssignInitSkipFirst(nb, target, model, categories) ==
    [nb EXCEPT ![target] = model,
               !.categories = <<SubSeq(categories, 2, Len(categories))>>]

\* The pair init returned, assigned to the two variables.
AssignInit(nb, target, model, categories) ==
    [nb EXCEPT ![target] = model, !.categories = <<categories>>]

\* <target>,categories = init(<name>, gpu): the assignment of both
\* variables, or the exception ending the run before any assignment.
CellInitReturn ==
    /\ At("init")
    /\ initCall.pc \in {"returned", "raised"}
    /\ notebook' =
         IF initCall.pc = "returned"
         THEN Advance(AssignInit(notebook, Current.target, initCall.model,
                                 initCall.categories))
         ELSE Fail(notebook)
    /\ initCall' = InitIdle
    /\ UNCHANGED <<disk, gpuAvailable, loadModelCall, loadCategoriesCall,
                   predictCall, prepareCall, log, runbook>>

\* params = vgg16.get_params(): a copy of the module's parameters (the
\* layer names are then sorted and printed).
CellGetParams ==
    /\ At("get_params")
    /\ notebook' = Advance([notebook EXCEPT
                              !.params = [arg |-> notebook[Current.name].arg_params,
                                          aux |-> notebook[Current.name].aux_params]])
    /\ UNCHANGED <<disk, gpuAvailable, initCall, loadModelCall, loadCategoriesCall,
                   predictCall, prepareCall, log, runbook>>

\* print params[0]['fc8_weight']: KeyError when the model has no such entry.
CellPrintParam ==
    /\ At("print_param")
    /\ notebook' = IF Current.name \in DOMAIN notebook.params.arg
                   THEN Advance(notebook)
                   ELSE Fail(notebook)
    /\ UNCHANGED <<disk, gpuAvailable, initCall, loadModelCall, loadCategoriesCall,
                   predictCall, prepareCall, log, runbook>>

\* image = "violin.jpg"; display(Image(filename=image)): Image reads the
\* file, and raises when there is none.
CellImage ==
    /\ At("image")
    /\ notebook' = IF Current.name \in DOMAIN disk
                   THEN Advance([notebook EXCEPT !.image = Current.name])
                   ELSE Fail([notebook EXCEPT !.image = Current.name])
    /\ UNCHANGED <<disk, gpuAvailable, initCall, loadModelCall, loadCategoriesCall,
                   predictCall, prepareCall, log, runbook>>

\* topn = 5
CellTopn ==
    /\ At("topn")
    /\ notebook' = Advance([notebook EXCEPT !.topn = TopN])
    /\ UNCHANGED <<disk, gpuAvailable, initCall, loadModelCall, loadCategoriesCall,
                   predictCall, prepareCall, log, runbook>>

\* print predict(image,<model>,categories,topn): the call.
CellPredictCall ==
    /\ At("predict")
    /\ predictCall.pc = "idle"
    /\ predictCall' = PredictEntry(notebook.image, notebook[Current.name],
                                   notebook.categories[1], notebook.topn)
    /\ UNCHANGED <<disk, gpuAvailable, notebook, initCall, loadModelCall,
                   loadCategoriesCall, prepareCall, log, runbook>>

\* print predict(image,<model>,categories,topn): the list is printed
\* (printed counts the lists printed so far), or the exception ends the run
\* with nothing printed.
CellPredictReturn ==
    /\ At("predict")
    /\ predictCall.pc \in {"returned", "raised"}
    /\ notebook' =
         IF predictCall.pc = "returned"
         THEN Advance([notebook EXCEPT !.printed = @ + Len(predictCall.returned)])
         ELSE Fail(notebook)
    /\ predictCall' = PredictIdle
    /\ UNCHANGED <<disk, gpuAvailable, initCall, loadModelCall, loadCategoriesCall,
                   prepareCall, log, runbook>>

CellStep ==
    \/ CellWget
    \/ CellLoadCategoriesCall
    \/ CellLoadCategoriesReturn
    \/ CellInitCall
    \/ CellInitReturn
    \/ CellGetParams
    \/ CellPrintParam
    \/ CellImage
    \/ CellTopn
    \/ CellPredictCall
    \/ CellPredictReturn

NotebookIdle ==
    [pc |-> 1, error |-> FALSE, synsets |-> <<>>,
     vgg16 |-> NoModule, resnet152 |-> NoModule, inceptionv3 |-> NoModule,
     categories |-> <<>>, params |-> [arg |-> NoParams, aux |-> NoParams],
     image |-> "", topn |-> 0, printed |-> 0]

LogIdle == [checkpointLoads |-> 0, categoryLoads |-> 0]

-----------------------------------------------------------------------------
(* The runbook dsstne/demo-docker.txt, command by command *)

\* A file name: directory, stem, version part and extension. In a pattern
\* the version "*" stands for the shell's * (any version part).
Name(dir, stem, version, ext) ==
    [dir |-> dir, stem |-> stem, version |-> version, ext |-> ext]

Plain(stem) == Name(".", stem, "", "")

DriverInstaller(version) == Name("/tmp", "NVIDIA-Linux-x86_64-", version, ".run")
DockerPackage(version) == Name("/tmp", "nvidia-docker", version, ".deb")

Cmd(line, op, reads, writes, removes) ==
    [line |-> line, op |-> op, reads |-> reads, writes |-> writes,
     removes |-> removes]

\* The commands of the transcript in order, each with the files it reads
\* (patterns), writes and removes.
Commands ==
    << Cmd(8,  "run",   {}, {}, {}),   \* docker-machine create
       Cmd(15, "enter", {}, {}, {}),   \* docker-machine ssh p216xl01
       Cmd(21, "run",   {}, {}, {}),   \* sudo usermod -G docker ubuntu
       Cmd(24, "exit",  {}, {}, {}),
       Cmd(30, "enter", {}, {}, {}),   \* docker-machine ssh p216xl01
       Cmd(33, "run",   {}, {}, {}),   \* sudo apt-get install ...
       Cmd(36, "wget",  {}, {DriverInstaller("375.20")}, {}),
       Cmd(37, "wget",  {}, {DockerPackage("_1.0.0.rc.3-1_amd64")}, {}),
       Cmd(40, "sh",    {DriverInstaller("367.57")}, {}, {}),
       Cmd(41, "dpkg",  {DockerPackage("*")}, {}, {DockerPackage("*")}),
       Cmd(44, "run",   {}, {}, {}),   \* cat /proc/driver/nvidia/version
       Cmd(45, "run",   {}, {}, {}),   \* service nvidia-docker status
       Cmd(46, "run",   {}, {}, {}),   \* nvidia-docker run --rm nvidia/cuda nvidia-smi
       Cmd(49, "enter", {}, {}, {}),   \* nvidia-docker run -it tristanpenman/dsstne bash
       Cmd(57, "run",   {}, {}, {}),   \* useradd ...
       Cmd(58, "enter", {}, {}, {}),   \* su - user
       Cmd(61, "run",   {}, {}, {}),   \* apt-get update && apt-get install git
       Cmd(65, "clone", {}, {Plain("amazon-dsstne")}, {}),
       Cmd(66, "cd",    {Plain("amazon-dsstne")}, {}, {}),
       Cmd(68, "run",   {}, {}, {}),   \* make
       Cmd(73, "wget",  {}, {Plain("ml20m-all")}, {}),
       Cmd(74, "wget",  {}, {Plain("config.json")}, {}),
       Cmd(77, "generateNetCDF", {Plain("ml20m-all")},
           {Plain("gl_input.nc"), Plain("features_input"), Plain("samples_input")}, {}),
       Cmd(78, "generateNetCDF", {Plain("ml20m-all")},
           {Plain("gl_output.nc"), Plain("features_output"), Plain("samples_input")}, {}),
       Cmd(81, "train", {Plain("config.json"), Plain("gl_input.nc"), Plain("gl_output.nc")},
           {Plain("gl.nc")}, {}),
       Cmd(84, "predict", {Plain("gl.nc"), Plain("ml20m-all"), Plain("features_input"),
                           Plain("features_output")},
           {Plain("recs")}, {}),
       Cmd(87, "exit",  {}, {}, {}),
       Cmd(94, "run",   {}, {}, {}),   \* docker ps -a
       Cmd(95, "run",   {}, {}, {}) >> \* docker commit CONTAINER_ID dsstne-build

\* Whether file name f is one the pattern stands for.
Matches(pattern, f) ==
    /\ pattern.dir = f.dir
    /\ pattern.stem = f.stem
    /\ pattern.ext = f.ext
    /\ (pattern.version = "*" \/ pattern.version = f.version)

\* The session: the command it is at, the shells entered (the machine of
\* each), the files that exist on each machine, the file names any command
\* so far was to write (written or not), and the reads, by line, of a name
\* that no earlier command was to write.
RunbookStart ==
    [pc |-> 1, shells |-> <<"local">>, fs |-> {}, targeted |-> {},
     unproduced |-> {}, failed |-> {}]

RunbookIdle == [RunbookStart EXCEPT !.pc = 0]

RunbookAt(op) ==
    /\ runbook.pc >= 1
    /\ runbook.pc <= Len(Commands)
    /\ Commands[runbook.pc].op = op

Command == Commands[runbook.pc]
Machine == runbook.shells[Len(runbook.shells)]
OnMachine(names) == {[machine |-> Machine, name |-> f] : f \in names}

\* pattern has a file on this machine among files.
Present(pattern, files) ==
    \E e \in files : e.machine = Machine /\ Matches(pattern, e.name)

\* The session after the command at pc: it succeeds when every file it
\* reads exists and ok (its network access, if any, works); it then writes
\* and removes its files. Otherwise it fails and the session goes on with
\* the next command, as a pasted transcript does.
Exec(rb, ok) ==
    LET cmd     == Commands[rb.pc]
        success == ok /\ \A pattern \in cmd.reads : Present(pattern, rb.fs)
        removed == {e \in rb.fs : e.machine = Machine
                                  /\ \E pattern \in cmd.removes : Matches(pattern, e.name)}
    IN  [rb EXCEPT
           !.pc = @ + 1,
           !.fs = IF success THEN (@ \ removed) \cup OnMachine(cmd.writes) ELSE @,
           !.targeted = @ \cup OnMachine(cmd.writes),
           !.unproduced = @ \cup {[line |-> cmd.line, name |-> pattern] :
                                    pattern \in {q \in cmd.reads : ~Present(q, rb.targeted)}},
           !.failed = IF success THEN @ ELSE @ \cup {cmd.line}]

ExceptRunbook == <<disk, gpuAvailable, notebook, initCall, loadModelCall,
                   loadCategoriesCall, predictCall, prepareCall, log>>

\* A command that reads and writes no file of the runbook.
RunCommand ==
    /\ RunbookAt("run")
    /\ runbook' = Exec(runbook, TRUE)
    /\ UNCHANGED ExceptRunbook

\* docker-machine ssh, nvidia-docker run -it ... bash, su - user: a shell on
\* the instance, or in the container.
RunEnter ==
    /\ RunbookAt("enter")
    /\ LET machine == IF Machine = "local" THEN "instance" ELSE "container"
       IN  runbook' = [Exec(runbook, TRUE) EXCEPT !.shells = Append(@, machine)]
    /\ UNCHANGED ExceptRunbook

\* exit: back to the shell this one was entered from.
RunExit ==
    /\ RunbookAt("exit")
    /\ runbook' = [Exec(runbook, TRUE) EXCEPT
                     !.shells = SubSeq(@, 1, Len(@) - 1)]
    /\ UNCHANGED ExceptRunbook

\* wget: writes the file named by the URL, unless the download fails.
RunWget ==
    /\ RunbookAt("wget")
    /\ \E ok \in BOOLEAN : runbook' = Exec(runbook, ok)
    /\ UNCHANGED ExceptRunbook

\* sudo sh <installer> --silent
RunSh ==
    /\ RunbookAt("sh")
    /\ runbook' = Exec(runbook, TRUE)
    /\ UNCHANGED ExceptRunbook

\* sudo dpkg -i /tmp/nvidia-docker*.deb && rm /tmp/nvidia-docker*.deb
RunDpkg ==
    /\ RunbookAt("dpkg")
    /\ runbook' = Exec(runbook, TRUE)
    /\ UNCHANGED ExceptRunbook

\* git clone: writes the source tree, unless the download fails.
RunClone ==
    /\ RunbookAt("clone")
    /\ \E ok \in BOOLEAN : runbook' = Exec(runbook, ok)
    /\ UNCHANGED ExceptRunbook

\* cd amazon-dsstne/src/amazon/dsstne/
RunCd ==
    /\ RunbookAt("cd")
    /\ runbook' = Exec(runbook, TRUE)
    /\ UNCHANGED ExceptRunbook

\* generateNetCDF -d ... -i ml20m-all -o <layer>.nc -f ... -s ... -c
RunGenerateNetCDF ==
    /\ RunbookAt("generateNetCDF")
    /\ runbook' = Exec(runbook, TRUE)
    /\ UNCHANGED ExceptRunbook

\* mpirun -np 8 train -c config.json -i gl_input.nc -o gl_output.nc -n gl.nc
RunTrain ==
    /\ RunbookAt("train")
    /\ runbook' = Exec(runbook, TRUE)
    /\ UNCHANGED ExceptRunbook

\* predict ... -n gl.nc -f ml20m-all -s recs -r ml20m-all
RunPredict ==
    /\ RunbookAt("predict")
    /\ runbook' = Exec(runbook, TRUE)
    /\ UNCHANGED ExceptRunbook

RunbookStep ==
    \/ RunCommand
    \/ RunEnter
    \/ RunExit
    \/ RunWget
    \/ RunSh
    \/ RunDpkg
    \/ RunClone
    \/ RunCd
    \/ RunGenerateNetCDF
    \/ RunTrain
    \/ RunPredict

-----------------------------------------------------------------------------
(* The notebook's run *)


NoFiles == [f \in {} |-> EmptyFile]

\* A run of the notebook from a fresh kernel, in a directory that holds the
\* user's image or not, on a machine with or without a GPU.
Init ==
    /\ \E img \in {DecodedImage(1, MaxDim, 0), DecodedImage(MaxDim, MaxDim, 1)} :
          disk \in {NoFiles, WriteFile(NoFiles, "violin.jpg", ImageFile(img))}
    /\ gpuAvailable \in BOOLEAN
    /\ notebook = NotebookIdle
    /\ initCall = InitIdle
    /\ loadModelCall = LoadModelIdle
    /\ loadCategoriesCall = LoadCategoriesIdle
    /\ predictCall = PredictIdle
    /\ prepareCall = PrepareIdle
    /\ log = LogIdle
    /\ runbook = RunbookIdle

Next ==
    \/ CellStep
    \/ InitStep
    \/ LoadModelStep
    \/ LoadCategoriesStep
    \/ PredictStep
    \/ PrepareStep

Spec == Init /\ [][Next]_vars

-----------------------------------------------------------------------------
(* predict on its own: one call, on any model, list of categories and n *)

\* A list of L categories, as loadCategories returns it.
Categories(L) == [i \in 1..L |-> RStrip(LabelLine(i - 1))]

\* A model of K classes, loaded on the CPU.
ModelOf(K) ==
    SetParams(Bind(Module([name |-> "net", classes |-> K], ContextFor(FALSE)),
                   FALSE, DataShapes),
              NoParams, NoParams)

FramesIdle ==
    /\ notebook = [NotebookIdle EXCEPT !.pc = Len(Program) + 1]
    /\ initCall = InitIdle
    /\ loadModelCall = LoadModelIdle
    /\ loadCategoriesCall = LoadCategoriesIdle
    /\ log = LogIdle
    /\ runbook = RunbookIdle

InitPredict ==
    /\ disk \in {NoFiles,
                 WriteFile(NoFiles, "violin.jpg", ImageFile(DecodedImage(1, MaxDim, 0)))}
    /\ gpuAvailable = FALSE
    /\ prepareCall = PrepareIdle
    /\ \E K \in 0..MaxClasses, L \in 0..MaxCats, n \in (-1)..MaxN :
          predictCall = PredictEntry("violin.jpg", ModelOf(K), Categories(L), n)
    /\ FramesIdle

NextPredict ==
    \/ PredictStep
    \/ PrepareStep

SpecPredict == InitPredict /\ [][NextPredict]_vars

\* The call has ended after a forward pass that returned an output.
PredictEnded ==
    /\ predictCall.pc \in {"returned", "raised"}
    /\ ~IsNone(predictCall.prob)

\* The probability vector the forward pass returned, as a sequence, and, of
\* the result, the probabilities and the labels.
ProbVector ==
    [j \in 1..SortLen(predictCall.prob) |-> FlatAt(predictCall.prob, j - 1)]
Result == predictCall.returned[1]
ResultProbs == [k \in 1..Len(Result) |-> Result[k][1]]

Count(seq, v) == Cardinality({j \in 1..Len(seq) : seq[j] = v})

\* res holds exactly the Len(res) largest values of vec, as a multiset: it
\* takes no value more often than vec has it, and no value left out is
\* greater than a value taken.
LargestOf(res, vec) ==
    /\ \A v \in 0..MaxProb : Count(res, v) <= Count(vec, v)
    /\ \A v, w \in 0..MaxProb :
          Count(vec, v) > Count(res, v) /\ Count(res, w) > 0 => v <= w

NonIncreasing(seq) == \A k \in 1..(Len(seq) - 1) : seq[k] >= seq[k + 1]

TopNSorted ==
    /\ predictCall.pc = "returned"
    /\ Len(Result) = predictCall.n
    /\ NonIncreasing(ResultProbs)
    /\ LargestOf(ResultProbs, ProbVector)

PairsByIndex ==
    \E idx \in [1..Len(Result) -> 0..(Len(ProbVector) - 1)] :
       /\ \A j, k \in 1..Len(Result) : j # k => idx[j] # idx[k]
       /\ \A k \in 1..Len(Result) :
             Result[k] = <<ProbVector[idx[k] + 1], predictCall.categories[idx[k] + 1]>>

TopNPaired ==
    /\ predictCall.pc = "returned"
    /\ Len(Result) = Min(predictCall.n, Len(ProbVector))
    /\ PairsByIndex

\* C2, as stated: for every prob vector, every list of categories at least
\* as long and every n >= 0, predict returns min(n, len(prob)) pairs, from
\* pairwise distinct indices, each pair (prob[i], categories[i]) for one i.
C2_PairsMatchIndex ==
    ( /\ PredictEnded
      /\ predictCall.n >= 0
      /\ Len(predictCall.categories) >= Len(ProbVector) )
    => TopNPaired

\* C2, amended: the same for every prob vector whose length is not 1 (and
\* for n = 0).
C2_PairsMatchIndexVector ==
    ( /\ PredictEnded
      /\ predictCall.n >= 0
      /\ Len(predictCall.categories) >= Len(ProbVector)
      /\ (Len(ProbVector) # 1 \/ predictCall.n = 0) )
    => TopNPaired

\* A call with n beyond the length of prob that returned every class, the
\* label of index 1 first.
C2_Witness ==
    /\ predictCall.pc = "returned"
    /\ Len(ProbVector) = 2
    /\ predictCall.n = 3
    /\ Len(predictCall.categories) = 3
    /\ Len(Result) = 2
    /\ Result[1] = <<ProbVector[2], Categories(2)[2]>>
    /\ ProbVector[2] > ProbVector[1]

-----------------------------------------------------------------------------
(* loadCategories on its own: one call, on any label file *)

Chars == {"a", " ", "\n"}

Texts == UNION { [1..m -> Chars] : m \in 0..MaxFileLen }

TextFile(text) == File("text", NoneArray, text, NoSymbol, [arg |-> NoParams, aux |-> NoParams])

InitCategories ==
    /\ disk \in {NoFiles} \cup { WriteFile(NoFiles, "synset.txt", TextFile(t)) : t \in Texts }
    /\ gpuAvailable = FALSE
    /\ prepareCall = PrepareIdle
    /\ predictCall = PredictIdle
    /\ notebook = [NotebookIdle EXCEPT !.pc = Len(Program) + 1]
    /\ initCall = InitIdle
    /\ loadModelCall = LoadModelIdle
    /\ loadCategoriesCall = LoadCategoriesEntry
    /\ log = LogIdle
    /\ runbook = RunbookIdle

NextCategories == LoadCategoriesStep

SpecCategories == InitCategories /\ [][NextCategories]_vars

\* The lines of a text: line k starts after the (k-1)th newline and runs to
\* the kth newline (included), the last one to the end of the text if no
\* newline ends it.
Newlines(text) == {q \in 1..Len(text) : text[q] = "\n"}
NthNewline(text, k) ==
    CHOOSE q \in Newlines(text) : Cardinality({r \in Newlines(text) : r <= q}) = k
NumLines(text) ==
    Cardinality(Newlines(text))
      + (IF text # <<>> /\ text[Len(text)] # "\n" THEN 1 ELSE 0)
LineOf(text, k) ==
    LET first == IF k = 1 THEN 1 ELSE NthNewline(text, k - 1) + 1
        last  == IF k <= Cardinality(Newlines(text)) THEN NthNewline(text, k)
                 ELSE Len(text)
    IN  SubSeq(text, first, last)

\* e is l with its trailing whitespace removed: a prefix of l that does not
\* end in whitespace, the rest of l being whitespace.
IsStripped(e, l) ==
    /\ Len(e) <= Len(l)
    /\ SubSeq(l, 1, Len(e)) = e
    /\ (e # <<>> => e[Len(e)] \notin Whitespace)
    /\ \A q \in (Len(e) + 1)..Len(l) : l[q] \in Whitespace

\* C3: loadCategories returns one entry per line of the label file, in file
\* order, each entry the line without its trailing whitespace (so a file of
\* 1000 lines gives 1000 entries, entry i the label of output index i).
C3_OneEntryPerLine ==
    loadCategoriesCall.pc = "returned" =>
       LET text == disk["synset.txt"].text
           out  == loadCategoriesCall.returned[1]
       IN  /\ Len(out) = NumLines(text)
           /\ \A k \in 1..Len(out) : IsStripped(out[k], LineOf(text, k))

\* A file of two lines, the second blank: two entries, the second empty.
C3_Witness ==
    /\ loadCategoriesCall.pc = "returned"
    /\ disk["synset.txt"].text = <<"a", "\n", " ", "\n">>
    /\ loadCategoriesCall.returned[1] = << <<"a">>, <<>> >>

-----------------------------------------------------------------------------
(* prepareNDArray on its own: one call, on any image *)

InitImage ==
    /\ disk \in {NoFiles}
                 \cup { WriteFile(NoFiles, "violin.jpg", ImageFile(img)) : img \in DecodedImages }
    /\ gpuAvailable = FALSE
    /\ prepareCall = PrepareEntry("violin.jpg")
    /\ predictCall = PredictIdle
    /\ FramesIdle

NextImage == PrepareStep

SpecImage == InitImage /\ [][NextImage]_vars

\* C8: for every decoded image of height H >= 1 and width W >= 1 with 3
\* channels, prepareNDArray returns a tensor of the fixed shape
\* (1, 3, Side, Side) whose element [0][c][y][x] is element [y][x][c] of the
\* resized RGB image, RGB channel c being BGR channel 2 - c of the decoded
\* image.
C8_FixedShapeChannelFirst ==
    prepareCall.pc = "returned" =>
       LET decoded == disk[prepareCall.filename].image
           rgb     == [decoded EXCEPT
                         !.at = [idx \in IndexSet(decoded.shape) |->
                                   decoded.at[<<idx[1], idx[2], 2 - idx[3]>>]]]
           resized == Resize(rgb, Side, Side)
       IN  /\ prepareCall.array.shape = <<1, 3, Side, Side>>
           /\ \A c \in 0..2, y \in 0..(Side - 1), x \in 0..(Side - 1) :
                 prepareCall.array.at[<<0, c, y, x>>] = resized.at[<<y, x, c>>]

\* A call that returned the tensor of an image wider than high.
C8_Witness ==
    /\ prepareCall.pc = "returned"
    /\ disk[prepareCall.filename].image.shape = <<1, 2, 3>>
    /\ prepareCall.array.shape = <<1, 3, Side, Side>>
    /\ prepareCall.array.at[<<0, 0, 0, 0>>] # prepareCall.array.at[<<0, 2, 0, 0>>]

-----------------------------------------------------------------------------
(* The run of the notebook (Spec) *)

LabelKeys == {"prob_label", "softmax_label"}

ModelVariables == {"vgg16", "resnet152", "inceptionv3"}

\* The checkpoint prefix the notebook loads into variable t.
PrefixOf(t) ==
    Program[CHOOSE i \in 1..Len(Program) :
               Program[i].op = "init" /\ Program[i].target = t].name

InitCalls == {i \in 1..Len(Program) : Program[i].op = "init"}

RunComplete == ~notebook.error /\ notebook.pc = Len(Program) + 1

\* C4, as stated: the list of category labels is loaded once.
C4_LoadedOnce == log.categoryLoads <= 1

\* C4, amended: the label file is loaded once by the loadCategories cell and
\* once more by every init call (seven loads over a full run); every load
\* gives the same list, so synsets and categories, once assigned, never
\* change content, and no cell, init or predict call modifies an entry.
C4_ReloadedSameContent ==
    [][ /\ notebook.synsets # <<>> => notebook'.synsets = notebook.synsets
        /\ notebook.categories # <<>> => notebook'.categories = notebook.categories
        /\ notebook'.categories # <<>> => notebook'.categories = notebook'.synsets
        /\ predictCall'.pc # "idle" => <<predictCall'.categories>> = notebook'.categories
        /\ log'.categoryLoads <= 1 + Cardinality(InitCalls)
        /\ (~notebook'.error /\ notebook'.pc = Len(Program) + 1)
              => log'.categoryLoads = 1 + Cardinality(InitCalls)
      ]_vars

\* The end of a full run: seven loads, the list as first loaded.
C4_Witness ==
    /\ RunComplete
    /\ log.categoryLoads = 7
    /\ notebook.categories = notebook.synsets
    /\ Len(notebook.categories[1]) = ZooClasses

\* q is p with the two label entries set: the keys of p and the two label
\* keys, the label entries LabelValue, every other entry as in p.
IsLabelled(q, p) ==
    /\ DOMAIN q = DOMAIN p \cup LabelKeys
    /\ \A k \in DOMAIN q : q[k] = IF k \in LabelKeys THEN LabelValue ELSE p[k]

\* C5, as stated: the parameter set loadModel hands to the module has
\* exactly the entries load_checkpoint returned.
C5_ParamsAsLoaded ==
    loadModelCall.pc \in {"return", "returned"} =>
       loadModelCall.mod.arg_params = loadModelCall.loaded

\* C5, amended: the parameter set loadModel hands to the module is what
\* load_checkpoint returned with the entries prob_label and softmax_label
\* set to [0] (added, or overwritten if the checkpoint has them); every
\* other entry, and the auxiliary set, are as loaded, and no later statement
\* or predict call changes the parameters of a loaded model.
C5_ParamsAsLoadedPlusLabels ==
    /\ loadModelCall.pc \in {"return", "returned"} =>
          /\ IsLabelled(loadModelCall.mod.arg_params, loadModelCall.loaded)
          /\ loadModelCall.mod.aux_params
               = disk[ParamsFile(loadModelCall.modelname, 0)].params.aux
    /\ \A t \in ModelVariables :
          notebook[t].binded =>
             /\ IsLabelled(notebook[t].arg_params,
                           disk[ParamsFile(PrefixOf(t), 0)].params.arg)
             /\ notebook[t].aux_params = disk[ParamsFile(PrefixOf(t), 0)].params.aux
    /\ predictCall.pc # "idle" =>
          \E t \in ModelVariables : predictCall.model = notebook[t]

\* A model in use by predict whose checkpoint had no label entry and whose
\* parameters have both.
C5_Witness ==
    /\ predictCall.pc = "returned"
    /\ predictCall.model = notebook.resnet152
    /\ DOMAIN disk["resnet-152-0000.params"].params.arg = {"fc8_weight", "fc8_bias"}
    /\ DOMAIN predictCall.model.arg_params
         = {"fc8_weight", "fc8_bias", "prob_label", "softmax_label"}

\* The files written so far by the download cell.
Downloaded ==
    { Program[i].target : i \in {j \in 1..Len(Program) :
                                    j < notebook.pc /\ Program[j].op = "wget"} }

\* Every loadModel(name) runs after both files it opens were written by a
\* download under exactly those names.
CheckpointDownloaded ==
    loadModelCall.pc # "idle" =>
       /\ SymbolFile(loadModelCall.modelname) \in Downloaded \cap DOMAIN disk
       /\ ParamsFile(loadModelCall.modelname, 0) \in Downloaded \cap DOMAIN disk

\* Inside a predict call, preprocessing precedes the forward pass, which
\* precedes the sort.
PredictInOrder ==
    /\ predictCall.pc \in {"prepare", "prepare_wait"} =>
          IsNone(predictCall.array) /\ IsNone(predictCall.prob)
    /\ predictCall.pc = "forward" =>
          ~IsNone(predictCall.array) /\ IsNone(predictCall.prob)
    /\ predictCall.pc \in {"squeeze", "argsort"} =>
          ~IsNone(predictCall.array) /\ ~IsNone(predictCall.prob)
             /\ predictCall.sortedprobindex = <<>>
    /\ predictCall.pc \in {"loop", "return", "returned"} =>
          ~IsNone(predictCall.array) /\ ~IsNone(predictCall.prob)
             /\ Len(predictCall.sortedprobindex) = SortLen(predictCall.prob)

\* Nothing is loaded before the download cell has run.
DownloadFirst ==
    (notebook.pc <= Cardinality({i \in 1..Len(Program) : Program[i].op = "wget"}))
       => log = LogIdle

\* C6, as stated: download, then model checkpoint, then category labels,
\* then preprocess, forward, sort: no category-label load precedes the first
\* checkpoint load; every loadModel(name) follows the download of its two
\* files under those names; in predict, preprocessing precedes the forward
\* pass, which precedes the sort.
C6_LinearOrder ==
    /\ DownloadFirst
    /\ log.categoryLoads > 0 => log.checkpointLoads > 0
    /\ CheckpointDownloaded
    /\ PredictInOrder

\* C6, amended: the label file is first loaded (synsets = loadCategories())
\* before the first checkpoint load; inside every init call the checkpoint
\* load precedes the label load. The rest as stated.
C6_LabelsFirstThenCheckpoints ==
    /\ DownloadFirst
    /\ log.checkpointLoads > 0 => log.categoryLoads > 0
    /\ loadModelCall.pc # "idle" => notebook.synsets # <<>>
    /\ initCall.pc \in {"loadCategories", "loadCategories_wait", "returned"} =>
          /\ initCall.model.binded
          /\ log.checkpointLoads + 1 >= log.categoryLoads
    /\ initCall.pc \in {"loadModel", "loadModel_wait"} =>
          /\ loadCategoriesCall.pc = "idle"
          /\ log.checkpointLoads + 1 >= log.categoryLoads
    /\ CheckpointDownloaded
    /\ PredictInOrder

\* The third init of the CPU run has read the Inception-BN checkpoint from
\* the file the download wrote under its -O name; the label file has been
\* loaded three times by then (by the cell and by two init calls).
C6_Witness ==
    /\ loadModelCall.pc = "set_labels"
    /\ loadModelCall.modelname = "Inception-BN"
    /\ "Inception-BN-0000.params" \in Downloaded
    /\ log.checkpointLoads = 3
    /\ log.categoryLoads = 3

\* What the checkpoint of the running loadModel holds on disk.
SymbolOnDisk == disk[SymbolFile(loadModelCall.modelname)].symbol

\* C7: loadModel picks the device from its gpu flag alone (GPU 0 when true,
\* the CPU otherwise); either way the module is bound for inference, not
\* training, with the one input 'data' of shape (1, 3, Side, Side), and
\* receives the checkpoint's parameters: the flag changes only the device.
C7_DeviceFromFlagOnly ==
    /\ loadModelCall.pc \in {"bind", "set_params", "return", "returned"} =>
          /\ loadModelCall.mod.context
               = (IF loadModelCall.gpu THEN "gpu(0)" ELSE "cpu(0)")
          /\ loadModelCall.mod.symbol = SymbolOnDisk
    /\ loadModelCall.pc \in {"return", "returned"} =>
          /\ [loadModelCall.mod EXCEPT !.context = "cpu(0)"]
               = [symbol       |-> SymbolOnDisk,
                  context      |-> "cpu(0)",
                  binded       |-> TRUE,
                  for_training |-> FALSE,
                  data_shapes  |-> <<"data", <<1, 3, Side, Side>>>>,
                  arg_params   |-> loadModelCall.arg_params,
                  aux_params   |-> loadModelCall.aux_params]
          /\ \A k \in DOMAIN loadModelCall.loaded \ LabelKeys :
                loadModelCall.mod.arg_params[k] = loadModelCall.loaded[k]

\* A module returned for gpu=True, on GPU 0.
C7_Witness ==
    /\ loadModelCall.pc = "returned"
    /\ loadModelCall.gpu
    /\ loadModelCall.returned[1].context = "gpu(0)"
    /\ ~loadModelCall.returned[1].for_training

\* C9: a failure of a library call passes, at once and unchanged, from the
\* function it happens in to its caller and ends the run: the call is not
\* made again, nothing more is loaded or written, predict returns no list
\* (nothing is printed), and the variables the failing statement was
\* assigning keep their values. After the failure nothing runs.
C9_FailurePropagates ==
    [][ /\ prepareCall.pc = "raised" =>
             prepareCall'.pc = "idle" /\ predictCall'.pc = "raised"
        /\ predictCall.pc = "raised" =>
             /\ predictCall'.pc = "idle"
             /\ notebook'.error
             /\ notebook'.printed = notebook.printed
        /\ predictCall'.pc = "raised" => predictCall'.returned = <<>>
        /\ loadModelCall.pc = "raised" =>
             loadModelCall'.pc = "idle" /\ initCall'.pc = "raised"
        /\ loadCategoriesCall.pc = "raised" =>
             /\ loadCategoriesCall'.pc = "idle"
             /\ IF initCall.pc = "idle" THEN notebook'.error
                ELSE initCall'.pc = "raised"
        /\ initCall.pc = "raised" =>
             /\ initCall'.pc = "idle"
             /\ ~initCall.returned
             /\ notebook'.error
        /\ ( \/ prepareCall.pc = "raised" \/ predictCall.pc = "raised"
             \/ loadModelCall.pc = "raised" \/ loadCategoriesCall.pc = "raised"
             \/ initCall.pc = "raised" ) => (log' = log /\ disk' = disk)
        /\ ( /\ ~notebook.error /\ notebook'.error
             /\ Current.op \in {"init", "predict", "loadCategories"} ) =>
             notebook' = [notebook EXCEPT !.error = TRUE]
        /\ ~notebook.error
      ]_vars

\* The GPU run failed on a machine without a GPU: the run has ended at the
\* first init(..., gpu=True), and vgg16 and categories still hold the model
\* and the list loaded for the CPU.
C9_Witness ==
    /\ notebook.error
    /\ Current.op = "init" /\ Current.gpu
    /\ ~gpuAvailable
    /\ notebook.vgg16.binded /\ notebook.vgg16.context = "cpu(0)"
    /\ notebook.categories # <<>>
    /\ notebook.printed = 3
    /\ initCall.pc = "idle" /\ loadModelCall.pc = "idle"

-----------------------------------------------------------------------------
(* The runbook, top to bottom (SpecRunbook) *)

InitRunbook ==
    /\ disk = NoFiles
    /\ gpuAvailable = TRUE
    /\ notebook = [NotebookIdle EXCEPT !.pc = Len(Program) + 1]
    /\ initCall = InitIdle
    /\ loadModelCall = LoadModelIdle
    /\ loadCategoriesCall = LoadCategoriesIdle
    /\ predictCall = PredictIdle
    /\ prepareCall = PrepareIdle
    /\ log = LogIdle
    /\ runbook = RunbookStart

NextRunbook == RunbookStep

SpecRunbook == InitRunbook /\ [][NextRunbook]_vars

\* C10: every file a step of the runbook consumes was produced under
\* exactly that name by an earlier step: the driver installer run is the one
\* downloaded, the nvidia-docker package installed is the one downloaded,
\* config.json and ml20m-all are downloaded before use, gl_input.nc and
\* gl_output.nc are generated before train, gl.nc is written before predict.
C10_ConsumedWasProduced == runbook.unproduced = {}

====
